---- MODULE Spec2Model ----
(***************************************************************************)
(* A model of the str-index crate: StrIndex (a u32 byte offset), StrRange  *)
(* (a half-open range of StrIndex with start <= end), their arithmetic and *)
(* set operations, and the serde encode / decode of both.                  *)
(*                                                                         *)
(* A u32 is kept at its full width.  TLC's integers stop at 2^31 - 1, so a *)
(* u32 is the record [hi, lo] of its two 16-bit halves, value              *)
(* hi * 2^16 + lo, and all arithmetic is done on the halves with carry.    *)
(***************************************************************************)
EXTENDS Integers, Sequences, FiniteSets, TLC

\* 2^16: a u32 (`raw: u32`) is two halves below this
Half == 65536

\* ---- bounds of the model ------------------------------------------------
\* offsets 0..LowMax at the bottom of the u32 range
LowMax == 1
\* offsets u32::MAX - HighSpan .. u32::MAX at the top of the u32 range
HighSpan == 1
\* keyed decoding is fed at most MaxKeys key/value entries
MaxKeys == 3

\* ---- u32 ----------------------------------------------------------------
U32(h, l) == [hi |-> h, lo |-> l]

u32_MAX == U32(Half - 1, Half - 1)

u32_lt(x, y) == x.hi < y.hi \/ (x.hi = y.hi /\ x.lo < y.lo)

u32_le(x, y) == x = y \/ u32_lt(x, y)

\* x + y on u32: the wrapped sum and whether the exact sum overflowed
u32_overflowing_add(x, y) ==
    LET l == x.lo + y.lo
        h == x.hi + y.hi + (l \div Half)
    IN  [val |-> U32(h % Half, l % Half), overflow |-> h >= Half]

\* x - y on u32: the wrapped difference and whether the exact one underflowed
u32_overflowing_sub(x, y) ==
    LET l == x.lo - y.lo
        borrow == IF l < 0 THEN 1 ELSE 0
        h == x.hi - y.hi - borrow
    IN  [val |-> U32(h % Half, l % Half), overflow |-> h < 0]

\* x / 10 and x % 10 on u32, by long division over the halves
u32_div10(x) ==
    LET r == (x.hi % 10) * Half + x.lo
    IN  U32(x.hi \div 10, r \div 10)

u32_rem10(x) == ((x.hi % 10) * Half + x.lo) % 10

DigitChars == <<"0", "1", "2", "3", "4", "5", "6", "7", "8", "9">>

\* Display for u32: the decimal digits, most significant first
RECURSIVE u32_fmt(_)
u32_fmt(x) ==
    IF x.hi = 0 /\ x.lo < 10
    THEN DigitChars[x.lo + 1]
    ELSE u32_fmt(u32_div10(x)) \o DigitChars[u32_rem10(x) + 1]

\* ---- StrIndex -----------------------------------------------------------
\* impl From<u32> for StrIndex
StrIndex_from(u) == [raw |-> u]

\* impl From<StrIndex> for u32
u32_from(idx) == idx.raw

\* derived Ord / PartialOrd of StrIndex: by raw
index_lt(x, y) == u32_lt(x.raw, y.raw)

index_le(x, y) == u32_le(x.raw, y.raw)

\* cmp::max and cmp::min on StrIndex
cmp_max(x, y) == IF index_le(x, y) THEN y ELSE x

cmp_min(x, y) == IF index_le(x, y) THEN x ELSE y

\* Display for StrIndex
fmt_index(idx) == u32_fmt(idx.raw)

\* the offsets the model feeds to the operations
Raws ==
    {U32(0, l) : l \in (0 .. LowMax) \cup {10}}
        \cup {U32(Half - 1, l) : l \in (Half - 1 - HighSpan) .. (Half - 1)}

Offsets == {StrIndex_from(u) : u \in Raws}

ZeroIndex == StrIndex_from(U32(0, 0))

\* ---- StrRange -----------------------------------------------------------
MkRange(s, e) == [start |-> s, end |-> e]

\* #[derive(Default)] for StrRange
DefaultRange == MkRange(ZeroIndex, ZeroIndex)

start(r) == r.start

end(r) == r.end

\* Display for StrRange
fmt_range(r) == fmt_index(start(r)) \o ".." \o fmt_index(end(r))

\* ---- outcomes of a call -------------------------------------------------
\* out: "ok" a value; "some"/"none" an Option; "panic" an abort; "err" a
\* recoverable decode error.  The fields an outcome does not use are blank.
Outcome(o, r, i, f, m) ==
    [out |-> o, range |-> r, idx |-> i, flag |-> f, msg |-> m]

OkRange(r) == Outcome("ok", r, ZeroIndex, FALSE, "")

OkIndex(i) == Outcome("ok", DefaultRange, i, FALSE, "")

OkBool(f) == Outcome("ok", DefaultRange, ZeroIndex, f, "")

SomeRange(r) == Outcome("some", r, ZeroIndex, FALSE, "")

SomeIdx(i) == Outcome("some", DefaultRange, i, FALSE, "")

None == Outcome("none", DefaultRange, ZeroIndex, FALSE, "")

Panic(m) == Outcome("panic", DefaultRange, ZeroIndex, FALSE, m)

Err(m) == Outcome("err", DefaultRange, ZeroIndex, FALSE, m)

\* ---- state --------------------------------------------------------------
VARIABLES
    overflow_checks, \* the build: TRUE when integer overflow checks are on
                     \* (debug profile), FALSE when off (release profile)
    m,               \* a StrIndex argument of the caller
    n,               \* another StrIndex argument of the caller
    a,               \* a StrRange the caller holds: `self` of the methods
    b,               \* another StrRange the caller holds: `other`
    i,               \* a StrIndex place of the caller: the target of += and -=
    wire,            \* the tokens of an input waiting to be decoded
    call             \* the last call: operation, operand form or data
                     \* format, tokens read, outcome

vars == <<overflow_checks, m, n, a, b, i, wire, call>>

\* ---- unchecked arithmetic (ops.rs) --------------------------------------
\* an addition that wraps in every build (u32::wrapping_add)
raw_add_wrapping(x, y) == OkIndex(StrIndex_from(u32_overflowing_add(x, y).val))

\* `self.raw + rhs.raw` on u32: with overflow checks the overflowing sum
\* panics, without them it wraps
raw_add(x, y) ==
    LET s == u32_overflowing_add(x, y)
    IN  IF s.overflow /\ overflow_checks
        THEN Panic("attempt to add with overflow")
        ELSE OkIndex(StrIndex_from(s.val))

\* `self.raw - rhs.raw` on u32
raw_sub(x, y) ==
    LET d == u32_overflowing_sub(x, y)
    IN  IF d.overflow /\ overflow_checks
        THEN Panic("attempt to subtract with overflow")
        ELSE OkIndex(StrIndex_from(d.val))

\* ---- checked arithmetic (lib.rs) -----------------------------------------
\* a checked_add written with the unchecked +: Some(self + rhs)
checked_add_by_plus(self, rhs) ==
    LET sum == raw_add(self.raw, rhs.raw)
    IN  IF sum.out = "panic" THEN sum ELSE SomeIdx(sum.idx)

\* StrIndex::checked_add: self.raw.checked_add(rhs.raw).map(StrIndex::from);
\* u32::checked_add is None on overflow in every build
checked_add(self, rhs) ==
    LET s == u32_overflowing_add(self.raw, rhs.raw)
    IN  IF s.overflow THEN None ELSE SomeIdx(StrIndex_from(s.val))

\* StrIndex::checked_sub: self.raw.checked_sub(rhs.raw).map(StrIndex::from)
checked_sub(self, rhs) ==
    LET d == u32_overflowing_sub(self.raw, rhs.raw)
    IN  IF d.overflow THEN None ELSE SomeIdx(StrIndex_from(d.val))

\* math!(impl Add for StrIndex by fn add = +): the four impls, for owned and
\* borrowed operands, share one body
OperandForms == {"val_val", "ref_val", "val_ref", "ref_ref"}

add(form, self, rhs) ==
    CASE form = "val_val" -> raw_add(self.raw, rhs.raw)
      [] form = "ref_val" -> raw_add(self.raw, rhs.raw)
      [] form = "val_ref" -> raw_add(self.raw, rhs.raw)
      [] form = "ref_ref" -> raw_add(self.raw, rhs.raw)

\* math!(impl Sub for StrIndex by fn sub = -)
sub(form, self, rhs) ==
    CASE form = "val_val" -> raw_sub(self.raw, rhs.raw)
      [] form = "ref_val" -> raw_sub(self.raw, rhs.raw)
      [] form = "val_ref" -> raw_sub(self.raw, rhs.raw)
      [] form = "ref_ref" -> raw_sub(self.raw, rhs.raw)

\* ---- constructing a StrRange (convert.rs, lib.rs) -----------------------
\* a From that asserts start < end, refusing the empty range
from_range_strict(s, e) ==
    LET range == MkRange(s, e)
    IN  IF index_lt(s, e)
        THEN OkRange(range)
        ELSE Panic("invalid string range " \o fmt_range(range))

\* impl From<Range<StrIndex>> for StrRange
from_range(s, e) ==
    LET range == MkRange(s, e)
    IN  IF index_le(s, e)
        THEN OkRange(range)
        ELSE Panic("invalid string range " \o fmt_range(range))

\* impl From<RangeTo<StrIndex>> for StrRange
from_range_to(e) == OkRange(MkRange(ZeroIndex, e))

\* a range_for that builds the range field by field, past the assert! of From
range_for_unasserted(self, len) ==
    LET sum == add("val_val", self, len)
    IN  IF sum.out = "panic" THEN sum ELSE OkRange(MkRange(self, sum.idx))

\* StrIndex::range_for: StrRange::from(self..self + len)
range_for(self, len) ==
    LET sum == add("val_val", self, len)
    IN  IF sum.out = "panic" THEN sum ELSE from_range(self, sum.idx)

\* StrIndex::range_to
range_to(self, e) == from_range(self, e)

\* StrIndex::as_unit_range
as_unit_range(self) == from_range(self, self)

\* StrRange::len: self.end() - self.start()
len(self) == sub("val_val", end(self), start(self))

\* StrRange::is_empty
is_empty(self) == start(self) = end(self)

\* StrRange::with_start
with_start(self, s) == from_range(s, end(self))

\* a with_end that builds the range field by field, past the assert! of From
with_end_unasserted(self, e) == OkRange(MkRange(start(self), e))

\* StrRange::with_end
with_end(self, e) == from_range(start(self), e)

\* StrRange::is_disjoint
is_disjoint(self, other) ==
    index_le(end(self), start(other)) \/ index_le(end(other), start(self))

\* StrRange::contains
contains(self, other) ==
    index_le(start(self), start(other)) /\ index_le(end(other), end(self))

\* StrRange::contains_exclusive
contains_exclusive(self, index) ==
    index_le(start(self), index) /\ index_lt(index, end(self))

\* Some(StrRange::from(..)): a panic inside passes through
SomeOf(res) == IF res.out = "panic" THEN res ELSE SomeRange(res.range)

\* an intersection that asks for start < end
intersection_strict(self, other) ==
    LET s == cmp_max(start(self), start(other))
        e == cmp_min(end(self), end(other))
    IN  IF index_lt(s, e) THEN SomeOf(from_range(s, e)) ELSE None

\* StrRange::intersection
intersection(self, other) ==
    LET s == cmp_max(start(self), start(other))
        e == cmp_min(end(self), end(other))
    IN  IF index_le(s, e) THEN SomeOf(from_range(s, e)) ELSE None

\* StrRange::nonempty_intersection
nonempty_intersection(self, other) ==
    LET s == cmp_max(start(self), start(other))
        e == cmp_min(end(self), end(other))
    IN  IF index_lt(s, e) THEN SomeOf(from_range(s, e)) ELSE None

\* a merge that takes the end of self for the end
merge_end_of_self(self, other) ==
    LET s == cmp_min(start(self), start(other))
        e == end(self)
    IN  from_range(s, e)

\* StrRange::merge
merge(self, other) ==
    LET s == cmp_min(start(self), start(other))
        e == cmp_max(end(self), end(other))
    IN  from_range(s, e)

\* ---- serde: the token stream of the data format -------------------------
\* A token: its kind t, its text s (a name or a key), its number u.
Tok(t, s, u) == [t |-> t, s |-> s, u |-> u]

NoNum == U32(0, 0)

\* The data formats a value is written in: "struct" names its types
\* (Struct .. StructEnd, NewtypeStruct), "map" is keyed and leaves newtypes
\* bare (Map .. MapEnd), "seq" is positional (Seq .. SeqEnd).
Formats == {"struct", "map", "seq"}

OpenTok(format) ==
    CASE format = "struct" -> Tok("Struct", "StrRange", U32(0, 2))
      [] format = "map" -> Tok("Map", "", U32(0, 2))
      [] format = "seq" -> Tok("Seq", "", U32(0, 2))

CloseTok(format) ==
    CASE format = "struct" -> Tok("StructEnd", "", NoNum)
      [] format = "map" -> Tok("MapEnd", "", NoNum)
      [] format = "seq" -> Tok("SeqEnd", "", NoNum)

EndOf(open) ==
    CASE open = "Struct" -> "StructEnd"
      [] open = "Map" -> "MapEnd"
      [] open = "Seq" -> "SeqEnd"
      [] OTHER -> ""

\* impl Serialize for StrIndex: serialize_newtype_struct("StrIndex", &self.raw)
serialize_index(format, self) ==
    IF format = "struct"
    THEN <<Tok("NewtypeStruct", "StrIndex", NoNum), Tok("U32", "", self.raw)>>
    ELSE <<Tok("U32", "", self.raw)>>

\* SerializeStruct::serialize_field: the key, where the format is keyed
KeyTok(format, key) ==
    IF format = "seq" THEN <<>> ELSE <<Tok("Str", key, NoNum)>>

\* a serializer that writes the field end before the field start
serialize_range_end_first(format, self) ==
    <<OpenTok(format)>>
        \o KeyTok(format, "end") \o serialize_index(format, self.end)
        \o KeyTok(format, "start") \o serialize_index(format, self.start)
        \o <<CloseTok(format)>>

\* impl Serialize for StrRange: serialize_struct("StrRange", 2), then the
\* fields start and end, then end()
serialize_range(format, self) ==
    <<OpenTok(format)>>
        \o KeyTok(format, "start") \o serialize_index(format, self.start)
        \o KeyTok(format, "end") \o serialize_index(format, self.end)
        \o <<CloseTok(format)>>

\* ---- serde: decoding ----------------------------------------------------
\* The outcome of reading one item at position p: ok with the value and the
\* position after it, or the error message.
Read(ok, idx, next, msg) == [ok |-> ok, idx |-> idx, next |-> next, msg |-> msg]

Kind(toks, p) == IF p <= Len(toks) THEN toks[p].t ELSE "End"

\* StrIndexVisitor::visit_u32
visit_u32(v) == StrIndex_from(v)

\* Deserializer::deserialize_u32 driving StrIndexVisitor
deserialize_u32(toks, p) ==
    IF Kind(toks, p) = "U32"
    THEN Read(TRUE, visit_u32(toks[p].u), p + 1, "")
    ELSE Read(FALSE, ZeroIndex, p, "invalid type, expected u32")

\* StrIndexVisitor::visit_newtype_struct
visit_newtype_struct(toks, p) == deserialize_u32(toks, p)

\* impl Deserialize for StrIndex: deserialize_newtype_struct("StrIndex", ..)
\* takes the tagged form through visit_newtype_struct and a bare u32
\* through visit_u32
deserialize_index(toks, p) ==
    IF Kind(toks, p) = "NewtypeStruct" /\ toks[p].s = "StrIndex"
    THEN visit_newtype_struct(toks, p + 1)
    ELSE deserialize_u32(toks, p)

\* const STR_RANGE_FIELDS (error texts write a quoted name with ' here)
STR_RANGE_FIELDS == <<"start", "end">>

\* StrRangeFieldVisitor::visit_str
visit_str(value) ==
    CASE value = "start" -> [ok |-> TRUE, field |-> "Start", msg |-> ""]
      [] value = "end" -> [ok |-> TRUE, field |-> "End", msg |-> ""]
      [] OTHER ->
            [ok |-> FALSE, field |-> "",
             msg |-> "unknown field '" \o value \o "', expected '"
                        \o STR_RANGE_FIELDS[1] \o "' or '"
                        \o STR_RANGE_FIELDS[2] \o "'"]

\* StrRangeVisitor::visit_seq: two next_element()? calls; the range is built
\* field by field, past the assert! of From, and start > end is an error
visit_seq(toks, p) ==
    IF Kind(toks, p) = "SeqEnd"
    THEN Err("invalid length 0, expected struct StrRange")
    ELSE LET first == deserialize_index(toks, p)
         IN  IF ~first.ok THEN Err(first.msg)
             ELSE IF Kind(toks, first.next) = "SeqEnd"
             THEN Err("invalid length 1, expected struct StrRange")
             ELSE LET second == deserialize_index(toks, first.next)
                  IN  IF ~second.ok THEN Err(second.msg)
                      ELSE LET range == MkRange(first.idx, second.idx)
                           IN  IF index_lt(second.idx, first.idx)
                               THEN Err("invalid string range " \o fmt_range(range))
                               ELSE OkRange(range)

\* Option<StrIndex>
NoIndex == [some |-> FALSE, idx |-> ZeroIndex]

SomeIndex(x) == [some |-> TRUE, idx |-> x]

\* A key given as bytes: the text of one that is not UTF-8, with one byte
\* 0xFF in it, and what from_utf8_lossy makes of it, with U+FFFD in its place.
InvalidUtf8Key == "st<FF>rt"

from_utf8_lossy(value) == IF value = InvalidUtf8Key THEN "st<U+FFFD>rt" ELSE value

\* StrRangeFieldVisitor::visit_bytes
visit_bytes(value) ==
    CASE value = "start" -> [ok |-> TRUE, field |-> "Start", msg |-> ""]
      [] value = "end" -> [ok |-> TRUE, field |-> "End", msg |-> ""]
      [] OTHER ->
            [ok |-> FALSE, field |-> "",
             msg |-> "unknown field '" \o from_utf8_lossy(value)
                        \o "', expected '" \o STR_RANGE_FIELDS[1] \o "' or '"
                        \o STR_RANGE_FIELDS[2] \o "'"]

\* impl Deserialize for StrRangeField: deserialize_identifier hands a string
\* key to visit_str and a bytes key to visit_bytes
deserialize_field(tok) ==
    IF tok.t = "Bytes" THEN visit_bytes(tok.s) ELSE visit_str(tok.s)

\* a visit_map that leaves out the start > end check
visit_map_finish_unchecked(s, e) ==
    IF ~s.some THEN Err("missing field 'start'")
    ELSE IF ~e.some THEN Err("missing field 'end'")
    ELSE OkRange(MkRange(s.idx, e.idx))

\* a visit_map that looks for the field end before the field start
visit_map_finish_end_first(s, e) ==
    IF ~e.some THEN Err("missing field 'end'")
    ELSE IF ~s.some THEN Err("missing field 'start'")
    ELSE LET range == MkRange(s.idx, e.idx)
         IN  IF index_lt(e.idx, s.idx)
             THEN Err("invalid string range " \o fmt_range(range))
             ELSE OkRange(range)

\* StrRangeVisitor::visit_map, after the loop: both fields are required,
\* start looked at first, then the check
visit_map_finish(s, e) ==
    IF ~s.some THEN Err("missing field 'start'")
    ELSE IF ~e.some THEN Err("missing field 'end'")
    ELSE LET range == MkRange(s.idx, e.idx)
         IN  IF index_lt(e.idx, s.idx)
             THEN Err("invalid string range " \o fmt_range(range))
             ELSE OkRange(range)

\* StrRangeVisitor::visit_map: `while let Some(key) = map.next_key()?`,
\* from position p with the fields seen so far
RECURSIVE visit_map(_, _, _, _, _)
visit_map(toks, p, close, s, e) ==
    IF Kind(toks, p) = close \/ Kind(toks, p) = "End"
    THEN visit_map_finish(s, e)
    ELSE IF Kind(toks, p) \notin {"Str", "Bytes"}
    THEN Err("invalid type, expected 'start' or 'end'")
    ELSE LET key == deserialize_field(toks[p])
             value == deserialize_index(toks, p + 1)
         IN  IF ~key.ok THEN Err(key.msg)
             ELSE IF key.field = "Start"
             THEN IF s.some THEN Err("duplicate field 'start'")
                  ELSE IF ~value.ok THEN Err(value.msg)
                  ELSE visit_map(toks, value.next, close, SomeIndex(value.idx), e)
             ELSE IF e.some THEN Err("duplicate field 'end'")
                  ELSE IF ~value.ok THEN Err(value.msg)
                  ELSE visit_map(toks, value.next, close, s, SomeIndex(value.idx))

\* impl Deserialize for StrRange: deserialize_struct("StrRange",
\* STR_RANGE_FIELDS, StrRangeVisitor); the format calls visit_seq on a
\* sequence and visit_map on a map or a struct
deserialize_range(toks) ==
    CASE Kind(toks, 1) = "Seq" -> visit_seq(toks, 2)
      [] Kind(toks, 1) \in {"Map", "Struct"} ->
            visit_map(toks, 2, EndOf(Kind(toks, 1)), NoIndex, NoIndex)
      [] OTHER -> Err("invalid type, expected struct StrRange")

\* impl Deserialize for StrIndex, on a whole input
deserialize_index_value(toks) ==
    LET r == deserialize_index(toks, 1)
    IN  IF r.ok THEN OkIndex(r.idx) ELSE Err(r.msg)

\* ---- the caller ---------------------------------------------------------
\* The record of a call.  Its arguments are what the caller holds: m and n
\* for StrIndex arguments, a for self and b for other.
MkCall(op, form, arg, input, res) ==
    [op |-> op, form |-> form, arg |-> arg, input |-> input, res |-> res]

\* a panic aborts the process: nothing is called after it
Alive == call.res.out # "panic"

\* a call changes nothing the caller holds
Held == UNCHANGED <<overflow_checks, m, n, a, b, i, wire>>

Slots == {"a", "b"}

\* the calls that return a StrRange, an Option of one or a Result of one
RangeOps ==
    {"from", "from_to", "default", "range_for", "range_to", "as_unit_range",
     "with_start", "with_end", "intersection", "nonempty_intersection", "merge",
     "deserialize_range", "round_trip_range"}

InitCommon ==
    /\ overflow_checks \in BOOLEAN
    /\ m \in Offsets
    /\ n \in Offsets
    /\ a = DefaultRange
    /\ b = DefaultRange
    /\ i = ZeroIndex
    /\ call = MkCall("start", "", ZeroIndex, <<>>, OkBool(TRUE))

Init == InitCommon /\ wire = <<>>

\* the caller keeps the StrRange the last call returned, as a or as b
Keep ==
    /\ call.op \in RangeOps
    /\ call.res.out \in {"ok", "some"}
    /\ \E dst \in Slots :
        /\ a' = IF dst = "a" THEN call.res.range ELSE a
        /\ b' = IF dst = "b" THEN call.res.range ELSE b
    /\ call' = MkCall("keep", "", ZeroIndex, <<>>, OkRange(call.res.range))
    /\ UNCHANGED <<overflow_checks, m, n, i, wire>>

\* StrRange::from(m..n)
From ==
    /\ Alive
    /\ call' = MkCall("from", "", ZeroIndex, <<>>, from_range(m, n))
    /\ Held

\* StrRange::from(..e)
FromTo ==
    /\ Alive
    /\ \E e \in {m, n} : call' = MkCall("from_to", "", e, <<>>, from_range_to(e))
    /\ Held

\* StrRange::default()
Default ==
    /\ Alive
    /\ call' = MkCall("default", "", ZeroIndex, <<>>, OkRange(DefaultRange))
    /\ Held

\* m.range_for(n)
RangeFor ==
    /\ Alive
    /\ call' = MkCall("range_for", "", ZeroIndex, <<>>, range_for(m, n))
    /\ Held

\* m.range_to(n)
RangeTo ==
    /\ Alive
    /\ call' = MkCall("range_to", "", ZeroIndex, <<>>, range_to(m, n))
    /\ Held

\* s.as_unit_range()
AsUnitRange ==
    /\ Alive
    /\ \E s \in {m, n} :
        call' = MkCall("as_unit_range", "", s, <<>>, as_unit_range(s))
    /\ Held

\* a.with_start(s)
WithStart ==
    /\ Alive
    /\ \E s \in {m, n} :
        call' = MkCall("with_start", "", s, <<>>, with_start(a, s))
    /\ Held

\* a.with_end(e)
WithEnd ==
    /\ Alive
    /\ \E e \in {m, n} :
        call' = MkCall("with_end", "", e, <<>>, with_end(a, e))
    /\ Held

\* a.intersection(b)
Intersection ==
    /\ Alive
    /\ call' = MkCall("intersection", "", ZeroIndex, <<>>, intersection(a, b))
    /\ Held

\* a.nonempty_intersection(b)
NonemptyIntersection ==
    /\ Alive
    /\ call' = MkCall("nonempty_intersection", "", ZeroIndex, <<>>,
                      nonempty_intersection(a, b))
    /\ Held

\* a.merge(b)
Merge ==
    /\ Alive
    /\ call' = MkCall("merge", "", ZeroIndex, <<>>, merge(a, b))
    /\ Held

\* a.len()
GetLen ==
    /\ Alive
    /\ call' = MkCall("len", "", ZeroIndex, <<>>, len(a))
    /\ Held

\* a.is_disjoint(b)
IsDisjoint ==
    /\ Alive
    /\ call' = MkCall("is_disjoint", "", ZeroIndex, <<>>,
                      OkBool(is_disjoint(a, b)))
    /\ Held

\* a.contains(b)
Contains ==
    /\ Alive
    /\ call' = MkCall("contains", "", ZeroIndex, <<>>, OkBool(contains(a, b)))
    /\ Held

\* a.contains_exclusive(index)
ContainsExclusive ==
    /\ Alive
    /\ \E index \in {m, n} :
        call' = MkCall("contains_exclusive", "", index, <<>>,
                       OkBool(contains_exclusive(a, index)))
    /\ Held

\* ---- inputs of the decoder ----------------------------------------------
\* One value on the wire: tagged with its newtype name, or a bare u32.
ValueToks(tagged, v) ==
    IF tagged
    THEN <<Tok("NewtypeStruct", "StrIndex", NoNum), Tok("U32", "", v.raw)>>
    ELSE <<Tok("U32", "", v.raw)>>

\* The entries of an aggregate on the wire; a sequence carries no keys.
RECURSIVE EntryToks(_, _, _)
EntryToks(open, tagged, entries) ==
    IF entries = <<>> THEN <<>>
    ELSE (IF open = "Seq" THEN <<>> ELSE <<Tok("Str", Head(entries).key, NoNum)>>)
            \o ValueToks(tagged, Head(entries).val)
            \o EntryToks(open, tagged, Tail(entries))

WireToks(open, tagged, entries) ==
    <<Tok(open, IF open = "Struct" THEN "StrRange" ELSE "", U32(0, Len(entries)))>>
        \o EntryToks(open, tagged, entries)
        \o <<Tok(EndOf(open), "", NoNum)>>

Entry(k, v) == [key |-> k, val |-> v]

\* the keys an untrusted keyed input may carry
Keys == {"start", "end", "len"}

SeqsUpTo(S, max) == UNION {[1 .. k -> S] : k \in 0 .. max}

\* the pair (s, e) in every form: positional, and keyed in either key order
PairInputs(s, e) ==
    {WireToks("Seq", tagged, <<Entry("", s), Entry("", e)>>) : tagged \in BOOLEAN}
    \cup
    {WireToks(open, tagged, <<Entry("start", s), Entry("end", e)>>) :
        open \in {"Map", "Struct"}, tagged \in BOOLEAN}
    \cup
    {WireToks(open, tagged, <<Entry("end", e), Entry("start", s)>>) :
        open \in {"Map", "Struct"}, tagged \in BOOLEAN}

\* the values an untrusted keyed input carries: 0, 10 and u32::MAX
WireOffsets ==
    {ZeroIndex, StrIndex_from(U32(0, 10)), StrIndex_from(u32_MAX)}

\* the keys of an input as bytes instead of strings
RECURSIVE WithBytesKeys(_)
WithBytesKeys(toks) ==
    IF toks = <<>> THEN <<>>
    ELSE <<IF Head(toks).t = "Str"
           THEN Tok("Bytes", Head(toks).s, NoNum)
           ELSE Head(toks)>> \o WithBytesKeys(Tail(toks))

\* a positional input: a sequence of up to two elements
SeqInputs ==
    {WireToks("Seq", tagged, es) :
        tagged \in BOOLEAN, es \in SeqsUpTo({Entry("", v) : v \in Offsets}, 2)}

\* a keyed input: a map or struct of up to MaxKeys entries with any string
\* keys
KeyedInputs ==
    {WireToks(open, tagged, es) :
        open \in {"Map", "Struct"}, tagged \in BOOLEAN,
        es \in SeqsUpTo({Entry(k, v) : k \in Keys, v \in WireOffsets}, MaxKeys)}

\* a keyed input whose keys are given as bytes: a map of up to MaxKeys
\* entries
BytesKeyedInputs ==
    {WithBytesKeys(WireToks("Map", FALSE, es)) :
        es \in SeqsUpTo({Entry(k, v) : k \in Keys \cup {InvalidUtf8Key},
                                       v \in WireOffsets}, MaxKeys)}

\* ---- serde actions ------------------------------------------------------
\* StrRange::deserialize on the pair (m, n), in one of its forms
DecodePair ==
    /\ Alive
    /\ \E toks \in PairInputs(m, n) :
        call' = MkCall("deserialize_range", "", ZeroIndex, toks,
                       deserialize_range(toks))
    /\ Held

\* StrRange::deserialize on the input that waits on the wire
DecodeWire ==
    /\ Alive
    /\ wire # <<>>
    /\ call' = MkCall("deserialize_range", "", ZeroIndex, wire,
                      deserialize_range(wire))
    /\ wire' = <<>>
    /\ UNCHANGED <<overflow_checks, m, n, a, b, i>>

\* StrIndex::deserialize on m, tagged or a bare u32
DecodeIndex ==
    /\ Alive
    /\ \E tagged \in BOOLEAN :
        LET toks == ValueToks(tagged, m)
        IN  call' = MkCall("deserialize_index", "", ZeroIndex, toks,
                           deserialize_index_value(toks))
    /\ Held

\* a is serialized in a data format and the output deserialized
RoundTripRange ==
    /\ Alive
    /\ \E format \in Formats :
        LET toks == serialize_range(format, a)
        IN  call' = MkCall("round_trip_range", format, ZeroIndex, toks,
                           deserialize_range(toks))
    /\ Held

\* m is serialized in a data format and the output deserialized
RoundTripIndex ==
    /\ Alive
    /\ \E format \in Formats :
        LET toks == serialize_index(format, m)
        IN  call' = MkCall("round_trip_index", format, ZeroIndex, toks,
                           deserialize_index_value(toks))
    /\ Held

\* ---- arithmetic actions -------------------------------------------------
\* m + n, for each owned / borrowed operand form
Add ==
    /\ Alive
    /\ \E form \in OperandForms :
        call' = MkCall("add", form, ZeroIndex, <<>>, add(form, m, n))
    /\ Held

\* m - n
Sub ==
    /\ Alive
    /\ \E form \in OperandForms :
        call' = MkCall("sub", form, ZeroIndex, <<>>, sub(form, m, n))
    /\ Held

\* m.checked_add(n)
CheckedAdd ==
    /\ Alive
    /\ call' = MkCall("checked_add", "", ZeroIndex, <<>>, checked_add(m, n))
    /\ Held

\* m.checked_sub(n)
CheckedSub ==
    /\ Alive
    /\ call' = MkCall("checked_sub", "", ZeroIndex, <<>>, checked_sub(m, n))
    /\ Held

\* AddAssign::add_assign: *self = *self + rhs, rhs owned or borrowed
add_assign(form, self, rhs) == add(form, self, rhs)

\* SubAssign::sub_assign: *self = *self - rhs
sub_assign(form, self, rhs) == sub(form, self, rhs)

AssignForms == {"val_val", "val_ref"}

\* the place i is set to m
SetIndex ==
    /\ Alive
    /\ i' = m
    /\ call' = MkCall("set_index", "", ZeroIndex, <<>>, OkIndex(m))
    /\ UNCHANGED <<overflow_checks, m, n, a, b, wire>>

\* i += n, from i = m
AddAssign ==
    /\ Alive
    /\ call.op = "set_index"
    /\ \E form \in AssignForms :
        LET res == add_assign(form, i, n)
        IN  /\ i' = IF res.out = "ok" THEN res.idx ELSE i
            /\ call' = MkCall("add_assign", form, ZeroIndex, <<>>, res)
    /\ UNCHANGED <<overflow_checks, m, n, a, b, wire>>

\* i -= n, from i = m
SubAssign ==
    /\ Alive
    /\ call.op = "set_index"
    /\ \E form \in AssignForms :
        LET res == sub_assign(form, i, n)
        IN  /\ i' = IF res.out = "ok" THEN res.idx ELSE i
            /\ call' = MkCall("sub_assign", form, ZeroIndex, <<>>, res)
    /\ UNCHANGED <<overflow_checks, m, n, a, b, wire>>

\* ---- specifications -----------------------------------------------------
\* the StrRange API, with the decoding of pairs and the round trips
Next ==
    \/ From \/ FromTo \/ Default \/ RangeFor \/ RangeTo \/ AsUnitRange
    \/ WithStart \/ WithEnd \/ Intersection \/ NonemptyIntersection \/ Merge
    \/ GetLen \/ IsDisjoint \/ Contains \/ ContainsExclusive
    \/ DecodePair \/ RoundTripRange \/ RoundTripIndex \/ DecodeIndex
    \/ Keep

Spec == Init /\ [][Next]_vars

\* StrIndex arithmetic
NextArith ==
    \/ Add \/ Sub \/ SetIndex \/ AddAssign \/ SubAssign
    \/ CheckedAdd \/ CheckedSub

SpecArith == Init /\ [][NextArith]_vars

\* the decoder on any input
InitDe ==
    /\ InitCommon
    /\ m = ZeroIndex
    /\ n = ZeroIndex
    /\ \/ wire \in SeqInputs
       \/ wire \in KeyedInputs
       \/ wire \in BytesKeyedInputs

NextDe == DecodeWire \/ Keep

SpecDe == InitDe /\ [][NextDe]_vars

\* ---- what the claims speak of -------------------------------------------
\* start <= end, said as: end is not below start
Ordered(r) == ~u32_lt(r.end.raw, r.start.raw)

\* p + q = r + k * 2^32 on the halves of three u32, for k = 0 (exact) or 1
SumIs(p, q, r, k) ==
    \E c \in {0, 1} :
        /\ p.lo + q.lo = r.lo + c * Half
        /\ p.hi + q.hi + c = r.hi + k * Half

Returned == call.op \in RangeOps /\ call.res.out \in {"ok", "some"}

Ten == StrIndex_from(U32(0, 10))

MaxIndex == StrIndex_from(u32_MAX)

\* the text "invalid string range {s}..{e}"
InvalidRangeText(s, e) ==
    "invalid string range " \o fmt_index(s) \o ".." \o fmt_index(e)

\* the same text written out for two pairs of bounds
InvalidRangeAnchors(s, e, text) ==
    /\ (s = Ten /\ e = ZeroIndex) => text = "invalid string range 10..0"
    /\ (s = MaxIndex /\ e = Ten) => text = "invalid string range 4294967295..10"

\* ---- C1 -----------------------------------------------------------------
\* C1: every StrRange the caller holds or a call returns has start <= end,
\* after any sequence of constructions, combinators and decodes; a call that
\* cannot keep this panics or returns an error / None instead.
C1_StartLeEnd ==
    /\ Ordered(a)
    /\ Ordered(b)
    /\ Returned => Ordered(call.res.range)

\* two different ranges are held, a not empty and b not at 0, and their
\* intersection has returned a range
C1_Witness ==
    /\ call.op = "intersection"
    /\ call.res.out = "some"
    /\ a # b
    /\ a.start # a.end
    /\ b.start # DefaultRange.start

\* ---- C2 -----------------------------------------------------------------
\* C2: StrRange::from(s..e) and s.range_to(e) succeed exactly when s <= e,
\* and then start() = s, end() = e and len() = e - s exactly; when e < s they
\* panic with "invalid string range {s}..{e}" and return nothing.
C2_FromRange ==
    call.op \in {"from", "range_to"} =>
        IF ~u32_lt(n.raw, m.raw)
        THEN /\ call.res.out = "ok"
             /\ start(call.res.range) = m
             /\ end(call.res.range) = n
             /\ len(call.res.range).out = "ok"
             /\ SumIs(m.raw, len(call.res.range).idx.raw, n.raw, 0)
        ELSE /\ call.res.out = "panic"
             /\ call.res.msg = InvalidRangeText(m, n)
             /\ InvalidRangeAnchors(m, n, call.res.msg)

\* from(s..s) has returned the empty range at a point other than 0
C2_Witness ==
    /\ call.op = "from"
    /\ call.res.out = "ok"
    /\ m = n
    /\ m # ZeroIndex

\* ---- C3 -----------------------------------------------------------------
\* C3: decoding the pair (start, end) in the positional form or the keyed
\* form never panics; with start > end it returns the decode error
\* "invalid string range {start}..{end}" and no range, with start <= end the
\* range with those bounds.
C3_DecodePair ==
    call.op = "deserialize_range" =>
        IF u32_lt(n.raw, m.raw)
        THEN /\ call.res.out = "err"
             /\ call.res.msg = InvalidRangeText(m, n)
             /\ InvalidRangeAnchors(m, n, call.res.msg)
        ELSE /\ call.res.out = "ok"
             /\ call.res.range = MkRange(m, n)

\* the keyed form of (10, 0) has been refused with the error
C3_Witness ==
    /\ call.op = "deserialize_range"
    /\ Kind(call.input, 1) \in {"Map", "Struct"}
    /\ call.res.out = "err"
    /\ call.res.msg = "invalid string range 10..0"

\* ---- C4 -----------------------------------------------------------------
\* C4: a valid StrRange written in a data format and read back is the range
\* that was written, in the keyed formats and the positional one; so is a
\* StrIndex, and a StrIndex is read the same from the tagged newtype form and
\* from a bare u32.
C4_RoundTrip ==
    /\ call.op = "round_trip_range" => call.res.out = "ok" /\ call.res.range = a
    /\ call.op = "round_trip_index" => call.res.out = "ok" /\ call.res.idx = m
    /\ call.op = "deserialize_index" => call.res.out = "ok" /\ call.res.idx = m

\* a range with different bounds, none 0, has gone through the positional form
C4_Witness ==
    /\ call.op = "round_trip_range"
    /\ call.form = "seq"
    /\ call.res.out = "ok"
    /\ a.start # a.end
    /\ a.start # ZeroIndex

\* ---- C5 -----------------------------------------------------------------
\* C5: a.intersection(b) never panics; it is Some([max of the starts, min of
\* the ends)) exactly when that max <= that min, which covers ranges that only
\* touch, and None exactly when there is a gap between a and b.
C5_Intersection ==
    call.op = "intersection" =>
        LET s == IF u32_lt(a.start.raw, b.start.raw) THEN b.start ELSE a.start
            e == IF u32_lt(b.end.raw, a.end.raw) THEN b.end ELSE a.end
            gap == u32_lt(a.end.raw, b.start.raw) \/ u32_lt(b.end.raw, a.start.raw)
        IN  /\ call.res.out \in {"some", "none"}
            /\ call.res.out = "some" <=> ~u32_lt(e.raw, s.raw)
            /\ call.res.out = "some" => call.res.range = MkRange(s, e)
            /\ call.res.out = "none" <=> gap

\* two ranges of positive length that touch have the empty intersection
C5_Witness ==
    /\ call.op = "intersection"
    /\ call.res.out = "some"
    /\ a.end = b.start
    /\ a.start # a.end
    /\ b.start # b.end
    /\ is_empty(call.res.range)

\* ---- C6 -----------------------------------------------------------------
\* C6: a.nonempty_intersection(b) is None when a.is_disjoint(b), and equals
\* a.intersection(b) when a.is_disjoint(b) is false.
C6_LikeIntersection ==
    call.op = "nonempty_intersection" =>
        IF is_disjoint(a, b)
        THEN call.res = None
        ELSE call.res = intersection(a, b)

\* ---- C7 -----------------------------------------------------------------
\* C7: a.merge(b) never panics and returns [min of the starts, max of the
\* ends), which contains a and contains b.
C7_Merge ==
    call.op = "merge" =>
        LET s == IF u32_lt(b.start.raw, a.start.raw) THEN b.start ELSE a.start
            e == IF u32_lt(a.end.raw, b.end.raw) THEN b.end ELSE a.end
        IN  /\ call.res.out = "ok"
            /\ call.res.range = MkRange(s, e)
            /\ contains(call.res.range, a)
            /\ contains(call.res.range, b)

\* two ranges with a gap between them, b the later one, have been merged
C7_Witness ==
    /\ call.op = "merge"
    /\ call.res.out = "ok"
    /\ u32_lt(a.end.raw, b.start.raw)
    /\ a.start # a.end
    /\ b.start # b.end

\* ---- C8 -----------------------------------------------------------------
\* the offsets at which two ranges could share a position: a shared position
\* exists exactly when the larger of the two starts is one
Probes == Offsets \cup {a.start, a.end, b.start, b.end}

\* C8: a.is_disjoint(b) is true exactly when no offset p has
\* a.contains_exclusive(p) and b.contains_exclusive(p), empty ranges included.
C8_DisjointSharesNoByte ==
    call.op = "is_disjoint" =>
        (call.res.flag <=>
            ~\E p \in Probes : contains_exclusive(a, p) /\ contains_exclusive(b, p))

\* ---- C9 -----------------------------------------------------------------
\* p + q is at most u32::MAX
Fits(p, q) == p.hi + q.hi + (IF p.lo + q.lo >= Half THEN 1 ELSE 0) < Half

\* C9 as claimed: s.range_for(n) never panics and returns the range from s to
\* the unchecked sum s + n, for all s and n.
C9_RangeForTotal ==
    call.op = "range_for" =>
        /\ call.res.out = "ok"
        /\ start(call.res.range) = m
        /\ \E k \in {0, 1} : SumIs(m.raw, n.raw, end(call.res.range).raw, k)

\* C9 amended: when s + n <= u32::MAX, s.range_for(n) returns the range from
\* s to s + n; when s + n > u32::MAX it panics and returns no range: on the
\* addition in a build with overflow checks, else on the assert of From,
\* whose wrapped end is below s.
C9_RangeForFits ==
    call.op = "range_for" =>
        IF Fits(m.raw, n.raw)
        THEN /\ call.res.out = "ok"
             /\ start(call.res.range) = m
             /\ SumIs(m.raw, n.raw, end(call.res.range).raw, 0)
        ELSE /\ call.res.out = "panic"
             /\ IF overflow_checks
                THEN call.res.msg = "attempt to add with overflow"
                ELSE \E c \in {0, 1} :
                        LET w == U32(m.raw.hi + n.raw.hi + c - Half,
                                     m.raw.lo + n.raw.lo - c * Half)
                        IN  /\ w.hi \in 0 .. Half - 1
                            /\ w.lo \in 0 .. Half - 1
                            /\ SumIs(m.raw, n.raw, w, 1)
                            /\ u32_lt(w, m.raw)
                            /\ call.res.msg = InvalidRangeText(m, StrIndex_from(w))
             /\ (~overflow_checks /\ m = MaxIndex /\ n = StrIndex_from(U32(0, 1)))
                    => call.res.msg = "invalid string range 4294967295..0"

\* range_for has returned a range that ends at u32::MAX, of positive length
C9_Witness ==
    /\ call.op = "range_for"
    /\ call.res.out = "ok"
    /\ end(call.res.range) = MaxIndex
    /\ n # ZeroIndex
    /\ m # ZeroIndex

\* ---- C10 ----------------------------------------------------------------
ArithOps == {"add", "sub", "add_assign", "sub_assign"}

\* The operands of an arithmetic call are m and n; the compound forms start
\* from i = m.
\* C10 as claimed: a + b is (a + b) mod 2^32 and a - b is (a - b) mod 2^32,
\* for every operand form and for += and -=, and neither panics.
C10_Wraps ==
    call.op \in ArithOps =>
        /\ call.res.out = "ok"
        /\ call.op \in {"add", "add_assign"} =>
            \E k \in {0, 1} : SumIs(m.raw, n.raw, call.res.idx.raw, k)
        /\ call.op \in {"sub", "sub_assign"} =>
            \E k \in {0, 1} : SumIs(call.res.idx.raw, n.raw, m.raw, k)
        /\ call.op \in {"add_assign", "sub_assign"} => i = call.res.idx

\* C10 amended: a + b is the exact sum when it is at most u32::MAX and a - b
\* the exact difference when b <= a, for every operand form and for += and
\* -=; past the 32-bit boundary the build decides: without overflow checks
\* the result wraps mod 2^32, with overflow checks the operator panics and
\* the target of a compound form is left as it was.
C10_WrapsOrPanics ==
    call.op \in ArithOps =>
        LET adding == call.op \in {"add", "add_assign"}
            exact == IF adding THEN Fits(m.raw, n.raw) ELSE ~u32_lt(m.raw, n.raw)
            k == IF exact THEN 0 ELSE 1
        IN  IF ~exact /\ overflow_checks
            THEN /\ call.res.out = "panic"
                 /\ call.res.msg = IF adding THEN "attempt to add with overflow"
                                    ELSE "attempt to subtract with overflow"
                 /\ call.op \in {"add_assign", "sub_assign"} => i = m
            ELSE /\ call.res.out = "ok"
                 /\ adding => SumIs(m.raw, n.raw, call.res.idx.raw, k)
                 /\ ~adding => SumIs(call.res.idx.raw, n.raw, m.raw, k)
                 /\ call.op \in {"add_assign", "sub_assign"} => i = call.res.idx

\* u32::MAX += 1 has wrapped to 0 in a build without overflow checks
C10_Witness ==
    /\ call.op = "add_assign"
    /\ ~overflow_checks
    /\ m = MaxIndex
    /\ n = StrIndex_from(U32(0, 1))
    /\ call.res.out = "ok"
    /\ i = ZeroIndex

\* ---- C11 ----------------------------------------------------------------
\* C11: a.checked_add(b) is Some(a + b), the exact sum, exactly when
\* a + b <= u32::MAX, and None otherwise; a.checked_sub(b) is Some(a - b), the
\* exact difference, exactly when b <= a, and None otherwise; neither wraps
\* nor panics, in either build.
C11_Checked ==
    /\ call.op = "checked_add" =>
        /\ call.res.out \in {"some", "none"}
        /\ call.res.out = "some" <=> Fits(m.raw, n.raw)
        /\ call.res.out = "some" => SumIs(m.raw, n.raw, call.res.idx.raw, 0)
    /\ call.op = "checked_sub" =>
        /\ call.res.out \in {"some", "none"}
        /\ call.res.out = "some" <=> ~u32_lt(m.raw, n.raw)
        /\ call.res.out = "some" => SumIs(call.res.idx.raw, n.raw, m.raw, 0)

\* u32::MAX.checked_add(1) has returned None in a build with overflow checks
C11_Witness ==
    /\ call.op = "checked_add"
    /\ overflow_checks
    /\ m = MaxIndex
    /\ n = StrIndex_from(U32(0, 1))
    /\ call.res = None

\* ---- C12 ----------------------------------------------------------------
\* the keys of a keyed input, in the order they come, and its values
KeysOf(toks) == SelectSeq(toks, LAMBDA t : t.t \in {"Str", "Bytes"})

ValuesOf(toks) == SelectSeq(toks, LAMBDA t : t.t = "U32")

\* the name an error gives a key: its text, the lossy text of bytes that are
\* not UTF-8
KeyName(k) ==
    IF k.t = "Bytes" /\ k.s = InvalidUtf8Key THEN "st<U+FFFD>rt" ELSE k.s

KnownKey(k) == k.s \in {"start", "end"}

\* key j stops the decoding: it is no field, or it has come before
StopsAt(ks, j) ==
    \/ ~KnownKey(ks[j])
    \/ \E h \in 1 .. (j - 1) : ks[h].s = ks[j].s

HasKey(ks, name) == \E j \in DOMAIN ks : ks[j].s = name

\* the value that comes with the first key of that name
ValueAt(ks, vs, name) ==
    StrIndex_from(vs[CHOOSE j \in DOMAIN ks :
                        /\ ks[j].s = name
                        /\ \A h \in 1 .. (j - 1) : ks[h].s # name].u)

\* what the keys ks with the values vs decode to
KeyedResult(ks, vs) ==
    IF \E j \in DOMAIN ks : StopsAt(ks, j)
    THEN LET first == CHOOSE j \in DOMAIN ks :
                        /\ StopsAt(ks, j)
                        /\ \A h \in 1 .. (j - 1) : ~StopsAt(ks, h)
         IN  IF ~KnownKey(ks[first])
             THEN Err("unknown field '" \o KeyName(ks[first])
                        \o "', expected 'start' or 'end'")
             ELSE Err("duplicate field '" \o ks[first].s \o "'")
    ELSE IF ~HasKey(ks, "start") THEN Err("missing field 'start'")
    ELSE IF ~HasKey(ks, "end") THEN Err("missing field 'end'")
    ELSE LET s == ValueAt(ks, vs, "start")
             e == ValueAt(ks, vs, "end")
         IN  IF u32_lt(e.raw, s.raw)
             THEN Err(InvalidRangeText(s, e))
             ELSE OkRange(MkRange(s, e))

\* the keys are one start and one end, in either order
OneStartOneEnd(ks) ==
    /\ Len(ks) = Len(STR_RANGE_FIELDS)
    /\ {ks[j].s : j \in DOMAIN ks} = {"start", "end"}

KeyedDecode ==
    /\ call.op = "deserialize_range"
    /\ Kind(call.input, 1) \in {"Map", "Struct"}

\* C12: keyed decoding takes the keys in order. A key other than start / end
\* stops it with the unknown-field error that names the key and lists start
\* and end; a second occurrence of a key stops it with the duplicate-field
\* error that names the key; when the keys run out with a field absent the
\* result is the missing-field error, start looked for before end; only then
\* comes the invalid-range error for start > end. The decoding succeeds
\* exactly when the keys are one start and one end, in either order, with
\* start <= end, and gives the range of the two values whatever the order.
C12_KeyedDecode ==
    KeyedDecode =>
        LET ks == KeysOf(call.input)
            vs == ValuesOf(call.input)
        IN  /\ call.res = KeyedResult(ks, vs)
            /\ call.res.out = "ok" <=>
                /\ OneStartOneEnd(ks)
                /\ ~u32_lt(ValueAt(ks, vs, "end").raw, ValueAt(ks, vs, "start").raw)
            /\ call.res.out = "ok" =>
                call.res.range = MkRange(ValueAt(ks, vs, "start"),
                                         ValueAt(ks, vs, "end"))

\* the keys start = 10, end = 0, start have been refused for the duplicate
\* and not for the invalid range
C12_Witness ==
    /\ KeyedDecode
    /\ Len(KeysOf(call.input)) = MaxKeys
    /\ KeysOf(call.input)[1].s = "start"
    /\ ValuesOf(call.input)[1].u = Ten.raw
    /\ KeysOf(call.input)[2].s = "end"
    /\ ValuesOf(call.input)[2].u = ZeroIndex.raw
    /\ call.res = Err("duplicate field 'start'")

====
